---- MODULE Spec2Model ----
(***************************************************************************)
(* A model of faux's mock-call registry (src/src/lib.rs): the struct Faux  *)
(* with its two tables of one-time mocks, the unchecked lane (mock_once /  *)
(* call_mock, built on transmute) and the checked lane (mock_once_safe /   *)
(* safe_call_mock, built on Box<dyn Any> and downcast), and on top of it   *)
(* the registration handle WhenHolder and the mocked method of the struct  *)
(* Foo of src/tests/multi_mock.rs.                                         *)
(***************************************************************************)
EXTENDS Integers, Sequences, FiniteSets, TLC

VARIABLES
    faux,     \* the Faux of the mock instance: its two HashMaps
    real,     \* the real instance: MaybeFaux::Real(Foo { a })
    last,     \* the operation performed last, with what it returned
    mocked,   \* history: per lane and id, the mock registered most recently
    used,     \* history: per lane and id, was it invoked since that registration
    cfg,      \* history: per lane and id, the budget the handle registered
    calls,    \* history: per lane and id, method calls since that registration
    cell,     \* the RefCell around faux: its borrow flag and the call holding it
    tally     \* history: per lane and id, registers made and outputs returned

vars == <<faux, real, last, mocked, used, cfg, calls, cell, tally>>

----------------------------------------------------------------------------
(* Bounds *)

\* the largest n of times(n)
MaxTimes == 3

\* the most calls of the mocked method after one registration
MaxCalls == 20

\* the registers of one identifier in one lane that are counted
MaxRegs == 2

----------------------------------------------------------------------------
(* Identifiers, types, values and closures *)

\* TypeId keys of the two tables: one per mocked method
Ids == {"get", "get_stuff"}

\* the methods of the struct Foo the handle and the mocked method are used on
WrapIds == {"get"}

\* the identifiers whose registers and answers are counted
CountIds == {"get"}

Lanes == {"unchecked", "checked"}

\* the types I and O range over
Types == {"unit", "i32", "bool"}

Val(ty, v) == [ty |-> ty, v |-> v]

NoVal == Val("none", 0)

ValuesOf(ty) ==
    CASE ty = "unit" -> {Val("unit", 0)}
      [] ty = "i32"  -> {Val("i32", 3), Val("i32", 10)}
      [] ty = "bool" -> {Val("bool", 0), Val("bool", 1)}
      [] OTHER       -> {}

\* the inputs a caller passes, and the output types it asks for
Inputs == ValuesOf("unit") \cup ValuesOf("i32")

OutTypes == {"i32", "bool"}

\* the closures registered: |_| 3, |_| 10, |x: i32| x == 3
Fns == {"k3", "k10", "is3"}

InType(fn) == IF fn = "is3" THEN "i32" ELSE "unit"

OutType(fn) == IF fn = "is3" THEN "bool" ELSE "i32"

\* calling the closure fn on arg
Apply(fn, arg) ==
    CASE fn = "k3"  -> Val("i32", 3)
      [] fn = "k10" -> Val("i32", 10)
      [] fn = "is3" -> Val("bool", IF arg.v = 3 THEN 1 ELSE 0)

\* MockTimes::Always, the budget of the unrestricted variant
Always == -1

\* a closure handed to the store: its code and the budget it has captured
\* (a plain FnOnce is good for one call)
Mock(fn, times) == [fn |-> fn, times |-> times]

\* an empty slot of a HashMap (get / remove give None)
NoMock == Mock("none", 0)

PlainMocks == {Mock(fn, 1) : fn \in Fns}

\* Option<O>, and how a call can end otherwise
Some(v) == [kind |-> "Some", val |-> v]

None == [kind |-> "None", val |-> NoVal]

\* a panic of unwrap() on a failed downcast
Panic == [kind |-> "Panic", val |-> NoVal]

\* a crash after the transmute to the wrong closure type
Crash == [kind |-> "Crash", val |-> NoVal]

\* the mocked method's panic on "no behavior available"
Fatal == [kind |-> "Fatal", val |-> NoVal]

Unit == [kind |-> "Unit", val |-> NoVal]

\* one application of a closure to an argument
Call(fn, arg) == [fn |-> fn, arg |-> arg]

\* what a store operation gives: the store after it, the value returned and
\* the closure applications made on the way
Outcome(f, ret, applied) == [faux |-> f, ret |-> ret, applied |-> applied]

----------------------------------------------------------------------------
(* Box<dyn Any> *)

\* Box::new(v) as Box<dyn Any>: the value with its TypeId
Box_new(val) == [type_id |-> val.ty, val |-> val.v]

NoBox == [type_id |-> "none", val |-> 0]

\* Box<dyn Any>::downcast::<T>(): Ok with the value when the TypeId is T's
downcast(boxed, T) ==
    IF boxed.type_id = T
    THEN [ok |-> TRUE, val |-> Val(T, boxed.val)]
    ELSE [ok |-> FALSE, val |-> NoVal]

----------------------------------------------------------------------------
(* struct Faux and impl Faux *)

\* Faux::default() from a table that was not emptied
Faux_default_stale ==
    [one_time_mocks      |-> [i \in Ids |-> NoMock],
     safe_one_time_mocks |-> [i \in Ids |-> Mock("k3", 1)]]

\* Faux::default(): two empty HashMaps
Faux_default ==
    [one_time_mocks      |-> [i \in Ids |-> NoMock],
     safe_one_time_mocks |-> [i \in Ids |-> NoMock]]

\* the entry of id in a lane
Slot(f, lane, id) ==
    IF lane = "unchecked" THEN f.one_time_mocks[id] ELSE f.safe_one_time_mocks[id]

\* mock_once with or_insert in place of insert: the first write wins
mock_once_keep_first(f, id, mock) ==
    IF f.one_time_mocks[id] = NoMock
    THEN [f EXCEPT !.one_time_mocks[id] = mock]
    ELSE f

\* mock_once: box, transmute (the bits stay, the types go), insert
mock_once(f, id, mock) ==
    [f EXCEPT !.one_time_mocks[id] = mock]

\* what the build can do once the box was transmuted to a closure type that
\* is not its own: the closure runs on some reinterpreted argument and
\* the caller reads some O out of what comes back, or the process crashes
TransmuteUB(g, mock, O) ==
    {Outcome(g, r, <<Call(mock.fn, a)>>) :
        r \in {Crash} \cup {Some(v) : v \in ValuesOf(O)},
        a \in ValuesOf(InType(mock.fn))}

\* call_mock with get in place of remove: the entry stays
call_mock_no_remove(f, id, input, O) ==
    LET mock == f.one_time_mocks[id]
    IN  IF mock = NoMock
        THEN {Outcome(f, None, <<>>)}
        ELSE IF InType(mock.fn) = input.ty /\ OutType(mock.fn) = O
             THEN {Outcome(f, Some(Apply(mock.fn, input)), <<Call(mock.fn, input)>>)}
             ELSE TransmuteUB(f, mock, O)

\* call_mock::<I, O>(id, input): the set of its possible outcomes
call_mock(f, id, input, O) ==
    LET mock == f.one_time_mocks[id]
        g    == [f EXCEPT !.one_time_mocks[id] = NoMock]
    IN  IF mock = NoMock
        THEN {Outcome(f, None, <<>>)}
        ELSE IF InType(mock.fn) = input.ty /\ OutType(mock.fn) = O
             THEN {Outcome(g, Some(Apply(mock.fn, input)), <<Call(mock.fn, input)>>)}
             ELSE TransmuteUB(g, mock, O)

\* mock_once_safe writing to the other table
mock_once_safe_wrong_table(f, id, mock) ==
    [f EXCEPT !.one_time_mocks[id] = mock]

\* mock_once_safe: wrap the mock in the closure over Box<dyn Any>, insert
mock_once_safe(f, id, mock) ==
    [f EXCEPT !.safe_one_time_mocks[id] = mock]

\* the closure mock_once_safe stores, called on a boxed input
SafeClosure(mock, boxed) ==
    LET input == downcast(boxed, InType(mock.fn))
    IN  IF ~input.ok
        THEN [panicked |-> TRUE, output |-> NoBox, applied |-> <<>>]
        ELSE [panicked |-> FALSE,
              output   |-> Box_new(Apply(mock.fn, input.val)),
              applied  |-> <<Call(mock.fn, input.val)>>]

\* safe_call_mock with get in place of remove: the entry stays
safe_call_mock_no_remove(f, id, input, O) ==
    LET mock == f.safe_one_time_mocks[id]
        out  == SafeClosure(mock, Box_new(input))
        res  == downcast(out.output, O)
    IN  IF mock = NoMock THEN Outcome(f, None, <<>>)
        ELSE IF out.panicked THEN Outcome(f, Panic, out.applied)
        ELSE IF ~res.ok THEN Outcome(f, Panic, out.applied)
        ELSE Outcome(f, Some(res.val), out.applied)

\* safe_call_mock with downcast().ok()? in place of downcast().unwrap()
safe_call_mock_ok(f, id, input, O) ==
    LET mock == f.safe_one_time_mocks[id]
        g    == [f EXCEPT !.safe_one_time_mocks[id] = NoMock]
        out  == SafeClosure(mock, Box_new(input))
        res  == downcast(out.output, O)
    IN  IF mock = NoMock THEN Outcome(f, None, <<>>)
        ELSE IF out.panicked THEN Outcome(g, Panic, out.applied)
        ELSE IF ~res.ok THEN Outcome(g, None, out.applied)
        ELSE Outcome(g, Some(res.val), out.applied)

\* safe_call_mock giving back the boxed input where the output belongs
safe_call_mock_echo(f, id, input, O) ==
    LET mock == f.safe_one_time_mocks[id]
        g    == [f EXCEPT !.safe_one_time_mocks[id] = NoMock]
        out  == SafeClosure(mock, Box_new(input))
        res  == downcast(Box_new(input), O)
    IN  IF mock = NoMock THEN Outcome(f, None, <<>>)
        ELSE IF out.panicked THEN Outcome(g, Panic, out.applied)
        ELSE IF ~res.ok THEN Outcome(g, Panic, out.applied)
        ELSE Outcome(g, Some(res.val), out.applied)

\* safe_call_mock with unwrap_or_default on the lookup: a miss gives a value
safe_call_mock_default(f, id, input, O) ==
    LET mock == f.safe_one_time_mocks[id]
        g    == [f EXCEPT !.safe_one_time_mocks[id] = NoMock]
        out  == SafeClosure(mock, Box_new(input))
        res  == downcast(out.output, O)
    IN  IF mock = NoMock THEN Outcome(f, Some(Val(O, 0)), <<>>)
        ELSE IF out.panicked THEN Outcome(g, Panic, out.applied)
        ELSE IF ~res.ok THEN Outcome(g, Panic, out.applied)
        ELSE Outcome(g, Some(res.val), out.applied)

\* safe_call_mock with clear() on a miss: the whole table is emptied
safe_call_mock_clear(f, id, input, O) ==
    LET mock == f.safe_one_time_mocks[id]
        g    == [f EXCEPT !.safe_one_time_mocks[id] = NoMock]
        c    == [f EXCEPT !.safe_one_time_mocks = [i \in Ids |-> NoMock]]
        out  == SafeClosure(mock, Box_new(input))
        res  == downcast(out.output, O)
    IN  IF mock = NoMock THEN Outcome(c, None, <<>>)
        ELSE IF out.panicked THEN Outcome(g, Panic, out.applied)
        ELSE IF ~res.ok THEN Outcome(g, Panic, out.applied)
        ELSE Outcome(g, Some(res.val), out.applied)

\* safe_call_mock with clear() in place of remove(&id)
safe_call_mock_drain(f, id, input, O) ==
    LET mock == f.safe_one_time_mocks[id]
        g    == [f EXCEPT !.safe_one_time_mocks = [i \in Ids |-> NoMock]]
        out  == SafeClosure(mock, Box_new(input))
        res  == downcast(out.output, O)
    IN  IF mock = NoMock THEN Outcome(f, None, <<>>)
        ELSE IF out.panicked THEN Outcome(g, Panic, out.applied)
        ELSE IF ~res.ok THEN Outcome(g, Panic, out.applied)
        ELSE Outcome(g, Some(res.val), out.applied)

\* safe_call_mock putting the entry back when a downcast fails
safe_call_mock_restore(f, id, input, O) ==
    LET mock == f.safe_one_time_mocks[id]
        g    == [f EXCEPT !.safe_one_time_mocks[id] = NoMock]
        out  == SafeClosure(mock, Box_new(input))
        res  == downcast(out.output, O)
    IN  IF mock = NoMock THEN Outcome(f, None, <<>>)
        ELSE IF out.panicked THEN Outcome(f, Panic, out.applied)
        ELSE IF ~res.ok THEN Outcome(f, Panic, out.applied)
        ELSE Outcome(g, Some(res.val), out.applied)

\* safe_call_mock::<I, O>(id, input): remove, call on the boxed input,
\* downcast the boxed output
safe_call_mock(f, id, input, O) ==
    LET mock == f.safe_one_time_mocks[id]
        g    == [f EXCEPT !.safe_one_time_mocks[id] = NoMock]
        out  == SafeClosure(mock, Box_new(input))
        res  == downcast(out.output, O)
    IN  IF mock = NoMock THEN Outcome(f, None, <<>>)
        ELSE IF out.panicked THEN Outcome(g, Panic, out.applied)
        ELSE IF ~res.ok THEN Outcome(g, Panic, out.applied)
        ELSE Outcome(g, Some(res.val), out.applied)

\* register and invoke of a lane
Register(f, lane, id, mock) ==
    IF lane = "unchecked" THEN mock_once(f, id, mock) ELSE mock_once_safe(f, id, mock)

Invoke(f, lane, id, input, O) ==
    IF lane = "unchecked" THEN call_mock(f, id, input, O)
    ELSE {safe_call_mock(f, id, input, O)}

----------------------------------------------------------------------------
(* The registration handle and the mocked struct *)

\* Foo::new(a), the real instance
Foo_new(a) == [a |-> a]

\* the values Foo::new is called with
RealFields == {3, 10}

\* the real body of Foo::get: self.a
Foo_get_real(r) == Val("i32", r.a)

\* the signature of Foo::get(&self) -> i32 the macros bind the handle and
\* the mocked method to
MethodInput == Val("unit", 0)

MethodOutput == "i32"

\* the closures a handle WhenHolder<(), i32> accepts
WrapFns == {fn \in Fns : InType(fn) = MethodInput.ty /\ OutType(fn) = MethodOutput}

\* then registering in the checked table
WhenHolder_then_safe(f, id, mock) ==
    mock_once_safe(f, id, mock)

\* WhenHolder::then(mock)
WhenHolder_then(f, id, mock) ==
    mock_once(f, id, mock)

\* WhenHolder::safe_then(mock), after once(), times(n) or nothing
WhenHolder_safe_then(f, id, fn, times) ==
    mock_once_safe(f, id, Mock(fn, times))

\* what one call of the wrapper leaves of the budget: Pending(remaining) to
\* Pending(remaining - 1), Pending(unbounded) to itself, else Exhausted
Remaining(mock) ==
    IF mock.times = Always THEN mock
    ELSE IF mock.times > 1 THEN Mock(mock.fn, mock.times - 1)
    ELSE NoMock

MethodOutcome(f, ret, applied, body, again) ==
    [faux |-> f, ret |-> ret, applied |-> applied, body |-> body, again |-> again]

\* the mocked method on the mock instance: invoke, fail on "no behavior",
\* else re-register what the budget leaves and return the output
Faux_get(f, lane, id) ==
    LET found == Slot(f, lane, id)
        next  == Remaining(found)
    IN  {IF r.ret = None
           THEN MethodOutcome(r.faux, Fatal, r.applied, "none", NoMock)
         ELSE IF r.ret.kind = "Some" /\ next # NoMock
           THEN MethodOutcome(Register(r.faux, lane, id, next), r.ret, r.applied,
                              "mock", next)
         ELSE MethodOutcome(r.faux, r.ret, r.applied, "mock", NoMock)
         : r \in Invoke(f, lane, id, MethodInput, MethodOutput)}

\* the method on an instance: MaybeFaux::Real runs the body, MaybeFaux::Faux
\* goes through the mock context
Foo_get(variant, r, f, lane, id) ==
    IF variant = "Real"
    THEN {MethodOutcome(f, Some(Foo_get_real(r)), <<>>, "real", NoMock)}
    ELSE Faux_get(f, lane, id)

----------------------------------------------------------------------------
(* The record of the last operation *)

Op(op, lane, id, mock, replaced, input, otype, ret, applied) ==
    [op |-> op, lane |-> lane, id |-> id, mock |-> mock, replaced |-> replaced,
     input |-> input, otype |-> otype, ret |-> ret, applied |-> applied,
     body |-> "none"]

NoCfg == [kind |-> "none", fn |-> "none", n |-> 0]

\* nothing registered, nothing returned, nothing run yet
NoTally == [regs |-> 0, hits |-> 0, runs |-> 0]

\* the panic of RefCell::borrow_mut on a cell that is borrowed
AlreadyBorrowed == [kind |-> "AlreadyBorrowed", val |-> NoVal]

\* RefCell::new(Faux::default()): not borrowed, no call of the method running
RefCell_new ==
    [borrowed |-> FALSE, lane |-> "none", id |-> "none", found |-> NoMock,
     ret |-> Unit, applied |-> <<>>]

\* a cell handing out its content whether borrowed or not
borrow_mut_unchecked(c) ==
    [ok |-> TRUE, cell |-> [c EXCEPT !.borrowed = TRUE]]

\* RefCell<Faux>::borrow_mut(): the one mutable borrow, refused while it is out
borrow_mut(c) ==
    [ok |-> ~c.borrowed, cell |-> [c EXCEPT !.borrowed = TRUE]]

Init ==
    /\ faux = Faux_default
    /\ real = Foo_new(3)
    /\ last = Op("new", "none", "none", NoMock, NoMock, NoVal, "none", Unit, <<>>)
    /\ mocked = [l \in Lanes |-> [i \in Ids |-> NoMock]]
    /\ used = [l \in Lanes |-> [i \in Ids |-> FALSE]]
    /\ cfg = [l \in Lanes |-> [i \in Ids |-> NoCfg]]
    /\ calls = [l \in Lanes |-> [i \in Ids |-> 0]]
    /\ cell = RefCell_new
    /\ tally = [l \in Lanes |-> [i \in Ids |-> NoTally]]

----------------------------------------------------------------------------
(* The store used directly *)

\* faux.mock_once(id, mock)
MockOnce(id, mock) ==
    /\ faux' = mock_once(faux, id, mock)
    /\ last' = Op("mock_once", "unchecked", id, mock, faux.one_time_mocks[id],
                  NoVal, "none", Unit, <<>>)
    /\ mocked' = [mocked EXCEPT !["unchecked"][id] = mock]
    /\ used' = [used EXCEPT !["unchecked"][id] = FALSE]
    /\ UNCHANGED <<real, cfg, calls>>

\* faux.call_mock::<I, O>(&id, input)
CallMock(id, input, O) ==
    /\ \E r \in call_mock(faux, id, input, O) :
          /\ faux' = r.faux
          /\ last' = Op("call_mock", "unchecked", id, NoMock, NoMock,
                        input, O, r.ret, r.applied)
    /\ used' = [used EXCEPT !["unchecked"][id] = TRUE]
    /\ UNCHANGED <<real, mocked, cfg, calls>>

\* faux.mock_once_safe(id, mock)
MockOnceSafe(id, mock) ==
    /\ faux' = mock_once_safe(faux, id, mock)
    /\ last' = Op("mock_once_safe", "checked", id, mock, faux.safe_one_time_mocks[id],
                  NoVal, "none", Unit, <<>>)
    /\ mocked' = [mocked EXCEPT !["checked"][id] = mock]
    /\ used' = [used EXCEPT !["checked"][id] = FALSE]
    /\ UNCHANGED <<real, cfg, calls>>

\* faux.safe_call_mock::<I, O>(&id, input)
SafeCallMock(id, input, O) ==
    /\ LET r == safe_call_mock(faux, id, input, O)
       IN  /\ faux' = r.faux
           /\ last' = Op("safe_call_mock", "checked", id, NoMock, NoMock,
                         input, O, r.ret, r.applied)
    /\ used' = [used EXCEPT !["checked"][id] = TRUE]
    /\ UNCHANGED <<real, mocked, cfg, calls>>

Next ==
    \/ \E id \in Ids, mock \in PlainMocks :
          MockOnce(id, mock) /\ UNCHANGED <<cell, tally>>
    \/ \E id \in Ids, input \in Inputs, O \in OutTypes :
          CallMock(id, input, O) /\ UNCHANGED <<cell, tally>>
    \/ \E id \in Ids, mock \in PlainMocks :
          MockOnceSafe(id, mock) /\ UNCHANGED <<cell, tally>>
    \/ \E id \in Ids, input \in Inputs, O \in OutTypes :
          SafeCallMock(id, input, O) /\ UNCHANGED <<cell, tally>>

Spec == Init /\ [][Next]_vars

----------------------------------------------------------------------------
(* The handle and the mocked method in use *)

Cfg(kind, fn, n) == [kind |-> kind, fn |-> fn, n |-> n]

\* let real = Foo::new(a)
New(a) ==
    /\ real' = Foo_new(a)
    /\ last' = Op("new", "none", "none", NoMock, NoMock, NoVal, "none", Unit, <<>>)
    /\ UNCHANGED <<faux, mocked, used, cfg, calls>>

\* when!(foo.get).then(mock)
Then(id, fn) ==
    /\ faux' = WhenHolder_then(faux, id, Mock(fn, 1))
    /\ last' = Op("then", "unchecked", id, Mock(fn, 1), NoMock,
                  NoVal, "none", Unit, <<>>)
    /\ mocked' = [mocked EXCEPT !["unchecked"][id] = Mock(fn, 1)]
    /\ used' = [used EXCEPT !["unchecked"][id] = FALSE]
    /\ cfg' = [cfg EXCEPT !["unchecked"][id] = Cfg("then", fn, 1)]
    /\ calls' = [calls EXCEPT !["unchecked"][id] = 0]
    /\ UNCHANGED real

\* the bookkeeping of a safe_then
SafeThen(id, kind, fn, times) ==
    /\ faux' = WhenHolder_safe_then(faux, id, fn, times)
    /\ last' = Op(kind, "checked", id, Mock(fn, times), NoMock,
                  NoVal, "none", Unit, <<>>)
    /\ mocked' = [mocked EXCEPT !["checked"][id] = Mock(fn, times)]
    /\ used' = [used EXCEPT !["checked"][id] = FALSE]
    /\ cfg' = [cfg EXCEPT !["checked"][id] = Cfg(kind, fn, times)]
    /\ calls' = [calls EXCEPT !["checked"][id] = 0]
    /\ UNCHANGED real

\* when!(foo.get).once().safe_then(mock)
OnceSafeThen(id, fn) == SafeThen(id, "once", fn, 1)

\* when!(foo.get).times(n).safe_then(mock)
TimesSafeThen(id, n, fn) == SafeThen(id, "times", fn, n)

\* when!(foo.get).safe_then(mock)
AlwaysSafeThen(id, fn) == SafeThen(id, "always", fn, Always)

\* foo.get() on the mock instance
FauxGet(lane, id) ==
    /\ calls[lane][id] < MaxCalls
    /\ \E r \in Foo_get("Faux", real, faux, lane, id) :
          /\ faux' = r.faux
          /\ last' = [Op("get", lane, id, NoMock, NoMock, MethodInput, MethodOutput,
                         r.ret, r.applied) EXCEPT !.body = r.body]
          /\ mocked' = IF r.again = NoMock THEN mocked
                       ELSE [mocked EXCEPT ![lane][id] = r.again]
          /\ used' = [used EXCEPT ![lane][id] = (r.again = NoMock)]
    /\ calls' = [calls EXCEPT ![lane][id] = @ + 1]
    /\ UNCHANGED <<real, cfg>>

\* real.get() on the real instance
RealGet ==
    /\ \E r \in Foo_get("Real", real, faux, "none", "none") :
          /\ faux' = r.faux
          /\ last' = [Op("real_get", "none", "none", NoMock, NoMock, MethodInput,
                         MethodOutput, r.ret, r.applied) EXCEPT !.body = r.body]
    /\ UNCHANGED <<real, mocked, used, cfg, calls>>

NextWrap ==
    \/ \E a \in RealFields :
          New(a) /\ UNCHANGED <<cell, tally>>
    \/ \E id \in WrapIds, fn \in WrapFns :
          Then(id, fn) /\ UNCHANGED <<cell, tally>>
    \/ \E id \in WrapIds, fn \in WrapFns :
          OnceSafeThen(id, fn) /\ UNCHANGED <<cell, tally>>
    \/ \E id \in WrapIds, n \in 1..MaxTimes, fn \in WrapFns :
          TimesSafeThen(id, n, fn) /\ UNCHANGED <<cell, tally>>
    \/ \E id \in WrapIds, fn \in WrapFns :
          AlwaysSafeThen(id, fn) /\ UNCHANGED <<cell, tally>>
    \/ \E lane \in Lanes, id \in WrapIds :
          FauxGet(lane, id) /\ UNCHANGED <<cell, tally>>
    \/ RealGet /\ UNCHANGED <<cell, tally>>

SpecWrap == Init /\ [][NextWrap]_vars

----------------------------------------------------------------------------
(* Properties of the store used directly, checked under Spec *)

IsRegister(r) == r.op \in {"mock_once", "mock_once_safe"}

IsInvoke(r) == r.op \in {"call_mock", "safe_call_mock"}

\* the caller's I and O are the ones the mock was registered with
WellTyped(mock, input, O) == InType(mock.fn) = input.ty /\ OutType(mock.fn) = O

\* what the caller of an invoke can see of it
Results(f, lane, id, input, O) ==
    {[ret |-> r.ret, applied |-> r.applied] : r \in Invoke(f, lane, id, input, O)}

\* C1 (consume-once): in either lane, the first invoke of id after a register,
\* with the types of the registration, returns Some; every invoke of id
\* that follows another invoke of id with no register in between, and every
\* invoke of an id never registered, returns None.
ConsumeOnce ==
    [][IsInvoke(last') =>
         LET l  == last'.lane
             id == last'.id
             m  == mocked[l][id]
         IN  /\ (used[l][id] \/ m = NoMock) => last'.ret = None
             /\ (~used[l][id] /\ m # NoMock /\ WellTyped(m, last'.input, last'.otype))
                   => last'.ret.kind = "Some"]_vars

\* a second invoke after one registration has returned None
ConsumeOnceWitness ==
    /\ IsInvoke(last)
    /\ last.ret = None
    /\ mocked[last.lane][last.id] # NoMock

\* what an invoke of id answers, by the registers and invokes of id alone:
\* None unless a mock was registered and not invoked since, else what that
\* mock gives on the input
Answer(l, id, input, O) ==
    LET m == mocked[l][id]
    IN  IF used[l][id] \/ m = NoMock THEN {None}
        ELSE IF WellTyped(m, input, O) THEN {Some(Apply(m.fn, input))}
        ELSE IF l = "checked" THEN {Panic}
        ELSE {Crash} \cup {Some(v) : v \in ValuesOf(O)}

\* C6 (identifier isolation): a register or an invoke of id1 leaves the entry
\* of every other id2 as it was, in both lanes; and what an invoke of id2
\* returns is always what the registers and invokes of id2 alone make it,
\* whatever was done on other ids in between.
IdentifierIsolation ==
    /\ [][(IsRegister(last') \/ IsInvoke(last')) =>
            \A l \in Lanes, id2 \in Ids \ {last'.id} :
               Slot(faux', l, id2) = Slot(faux, l, id2)]_vars
    /\ [](\A l \in Lanes, id2 \in Ids, input \in Inputs, O \in OutTypes :
            {r.ret : r \in Invoke(faux, l, id2, input, O)} = Answer(l, id2, input, O))

\* an entry of id1 was consumed while id2 holds an entry in the same lane
IdentifierIsolationWitness ==
    /\ last.op = "safe_call_mock"
    /\ last.ret.kind = "Some"
    /\ \E id2 \in Ids \ {last.id} : Slot(faux, "checked", id2) # NoMock

\* C7 (last write wins): a register puts its mock in the slot; after a
\* register of b2 over an unconsumed b1, the next invoke of the id (with
\* b2's types) returns b2(v) from one application of b2 and none of b1, and
\* leaves the slot empty, so that any invoke after it returns None.
LastWriteWins ==
    [][/\ IsRegister(last') => Slot(faux', last'.lane, last'.id) = last'.mock
       /\ ( /\ IsRegister(last) /\ last.replaced # NoMock
            /\ IsInvoke(last') /\ last'.lane = last.lane /\ last'.id = last.id
            /\ WellTyped(last.mock, last'.input, last'.otype) )
          => /\ last'.ret = Some(Apply(last.mock.fn, last'.input))
             /\ last'.applied = <<Call(last.mock.fn, last'.input)>>
             /\ Slot(faux', last.lane, last.id) = NoMock
             /\ \A input \in Inputs, O \in OutTypes :
                   \A r \in Invoke(faux', last.lane, last.id, input, O) :
                      r.ret = None]_vars

\* |_| 10 was registered over an unconsumed |_| 3, and the next invoke of
\* the id gives 10
LastWriteWinsWitness ==
    /\ IsRegister(last)
    /\ last.replaced = Mock("k3", 1)
    /\ last.mock = Mock("k10", 1)
    /\ Results(faux, last.lane, last.id, Val("unit", 0), "i32")
          = {[ret |-> Some(Val("i32", 10)), applied |-> <<Call("k10", Val("unit", 0))>>]}

\* C8 (a lookup miss mutates nothing): an invoke of an id absent from its
\* lane returns None, applies no closure and leaves both tables as they were.
MissNonMutating ==
    [][(IsInvoke(last') /\ Slot(faux, last'.lane, last'.id) = NoMock) =>
         /\ last'.ret = None
         /\ last'.applied = <<>>
         /\ faux' = faux]_vars

\* an invoke missed while both tables held entries of the other id
MissNonMutatingWitness ==
    /\ IsInvoke(last)
    /\ last.ret = None
    /\ \A l \in Lanes : \E id2 \in Ids \ {last.id} : Slot(faux, l, id2) # NoMock

\* C9 (round trip, checked lane): the first safe_call_mock of id after
\* mock_once_safe(id, behavior), with an input v of the behavior's input type
\* and the behavior's output type, returns Some(behavior(v)), and the
\* behavior was applied once, to v.
RoundTrip ==
    [][last'.op = "safe_call_mock" =>
         LET id == last'.id
             m  == mocked["checked"][id]
         IN  (~used["checked"][id] /\ m # NoMock
               /\ WellTyped(m, last'.input, last'.otype))
             => /\ last'.ret = Some(Apply(m.fn, last'.input))
                /\ last'.applied = <<Call(m.fn, last'.input)>>]_vars

\* |x| x == 3 was called through the checked lane on 3 and gave true
RoundTripWitness ==
    /\ last.op = "safe_call_mock"
    /\ last.input = Val("i32", 3)
    /\ last.ret = Some(Val("bool", 1))
    /\ last.applied = <<Call("is3", Val("i32", 3))>>

\* C10 (type mismatch, checked lane): the first safe_call_mock of id after
\* mock_once_safe(id, behavior) whose input type or output type is not the
\* behavior's ends in a panic: neither None nor a value.
TypeMismatchPanics ==
    [][last'.op = "safe_call_mock" =>
         LET id == last'.id
             m  == mocked["checked"][id]
         IN  (~used["checked"][id] /\ m # NoMock
               /\ ~WellTyped(m, last'.input, last'.otype))
             => /\ last'.ret = Panic
                /\ last'.ret # None
                /\ last'.ret.kind # "Some"]_vars

\* the output downcast failed after the behavior had run
TypeMismatchPanicsWitness ==
    /\ last.op = "safe_call_mock"
    /\ last.ret = Panic
    /\ last.applied # <<>>

----------------------------------------------------------------------------
(* Properties of the handle and the mocked method, checked under SpecWrap *)

\* the last step was foo.get() on the mock instance, through lane l
IsGet(l, id) == last.op = "get" /\ last.lane = l /\ last.id = id

\* what the k-th call after a registration of fn with a budget of n returns
Budgeted(fn, n, k) ==
    IF k <= n THEN Some(Apply(fn, MethodInput)) ELSE Fatal

\* C2 (bounded budget): after times(n).safe_then(behavior), each of the
\* first n calls of the method returns the behavior's output, and the calls
\* after them, the (n+1)-th first, fail with the fatal "no behavior".
BoundedBudget ==
    \A l \in Lanes, id \in WrapIds :
       (IsGet(l, id) /\ cfg[l][id].kind = "times") =>
          /\ cfg[l][id].n \in 1..MaxTimes
          /\ last.ret = Budgeted(cfg[l][id].fn, cfg[l][id].n, calls[l][id])

\* times(3) of |_| 3: the fourth call has failed
BoundedBudgetWitness ==
    /\ IsGet("checked", "get")
    /\ cfg["checked"]["get"] = Cfg("times", "k3", 3)
    /\ calls["checked"]["get"] = 4
    /\ last.ret = Fatal

\* C3 (unbounded repeatability): after safe_then(behavior) with no budget,
\* every call of the method returns the behavior's output, and the behavior
\* is registered again after each of them.
UnboundedRepeat ==
    \A l \in Lanes, id \in WrapIds :
       (IsGet(l, id) /\ cfg[l][id].kind = "always") =>
          /\ last.ret = Some(Apply(cfg[l][id].fn, MethodInput))
          /\ last.applied = <<Call(cfg[l][id].fn, MethodInput)>>
          /\ Slot(faux, l, id) = Mock(cfg[l][id].fn, Always)

\* the twentieth call in a row has returned 3
UnboundedRepeatWitness ==
    /\ IsGet("checked", "get")
    /\ cfg["checked"]["get"] = Cfg("always", "k3", Always)
    /\ calls["checked"]["get"] = 20
    /\ last.ret = Some(Val("i32", 3))

\* C4 (single shot): after then(behavior) or once().safe_then(behavior) the
\* calls of the method return what they return after times(1): the first the
\* behavior's output, the later ones the fatal "no behavior"; and the slot
\* is empty after any of them.
SingleShot ==
    \A l \in Lanes, id \in WrapIds :
       (IsGet(l, id) /\ cfg[l][id].kind \in {"then", "once"}) =>
          /\ last.ret = Budgeted(cfg[l][id].fn, 1, calls[l][id])
          /\ Slot(faux, l, id) = NoMock

\* after a then and after a once, the second call has failed
SingleShotWitness ==
    /\ last.op = "get"
    /\ last.ret = Fatal
    /\ cfg["unchecked"]["get"].kind = "then"
    /\ cfg["checked"]["get"].kind = "once"
    /\ calls["unchecked"]["get"] = 2
    /\ calls["checked"]["get"] = 2

\* no behavior is available for id: none was registered, or the budget of
\* the one registered is used up
NoBehavior(l, id) ==
    \/ cfg[l][id] = NoCfg
    \/ cfg[l][id].kind # "always" /\ calls[l][id] > cfg[l][id].n

\* C5 (no silent fallback): a call on the mock instance never runs the real
\* body; with no behavior available it fails fatally, returning no value and
\* applying nothing, and a value it returns was produced by a mock. A call on
\* the real instance runs the real body and returns self.a, whatever is
\* registered on the mock instance.
NoSilentFallback ==
    /\ \A l \in Lanes, id \in WrapIds :
          IsGet(l, id) =>
             /\ last.body # "real"
             /\ NoBehavior(l, id) =>
                   (last.ret = Fatal /\ last.applied = <<>> /\ last.body = "none")
             /\ last.ret.kind = "Some" => (last.body = "mock" /\ last.applied # <<>>)
             /\ last.ret.kind \in {"Some", "Fatal"}
    /\ last.op = "real_get" =>
          /\ last.ret = Some(Val("i32", real.a))
          /\ last.body = "real"
          /\ last.applied = <<>>

\* a call on the mock instance with nothing ever registered has failed,
\* while the real instance holds a value it could have returned
NoSilentFallbackWitness ==
    /\ last.op = "get"
    /\ cfg[last.lane][last.id] = NoCfg
    /\ last.ret = Fatal
    /\ real.a = 10

----------------------------------------------------------------------------
(* More properties of the store used directly, checked under Spec *)

\* nothing was registered yet, in either lane
NothingRegistered == \A l \in Lanes, id \in Ids : mocked[l][id] = NoMock

\* C15 (a fresh context is empty): the context MaybeFaux::faux() creates
\* holds no entry in either lane, and as long as nothing was registered
\* it stays so and every invoke of every id in either lane returns None.
FreshContextEmpty ==
    NothingRegistered =>
       /\ faux = Faux_default
       /\ \A l \in Lanes, id \in Ids : Slot(faux, l, id) = NoMock
       /\ IsInvoke(last) => (last.ret = None /\ last.applied = <<>>)
       /\ \A l \in Lanes, id \in Ids, input \in Inputs, O \in OutTypes :
             \A r \in Invoke(faux, l, id, input, O) : r.ret = None

\* invokes in both lanes have come back with None before any register
FreshContextEmptyWitness ==
    /\ NothingRegistered
    /\ IsInvoke(last)
    /\ last.ret = None
    /\ \A l \in Lanes : \E id \in Ids : used[l][id]

OtherLane(l) == IF l = "unchecked" THEN "checked" ELSE "unchecked"

\* C16 (lane independence): a register or an invoke in one lane leaves the
\* table of the other lane as it was; and an invoke of an id never
\* registered in its lane returns None and applies nothing, also while the
\* other lane holds an entry for that id, which it leaves in place.
LaneIndependence ==
    [][(IsRegister(last') \/ IsInvoke(last')) =>
         /\ \A id \in Ids : Slot(faux', OtherLane(last'.lane), id)
                               = Slot(faux, OtherLane(last'.lane), id)
         /\ (IsInvoke(last') /\ mocked[last'.lane][last'.id] = NoMock)
               => (last'.ret = None /\ last'.applied = <<>>)]_vars

\* the checked invoke of an id registered in the unchecked lane only has
\* returned None, and the unchecked entry is still there
LaneIndependenceWitness ==
    /\ last.op = "safe_call_mock"
    /\ last.ret = None
    /\ mocked["checked"][last.id] = NoMock
    /\ Slot(faux, "unchecked", last.id) # NoMock

\* C18 (the entry is consumed by a failing invoke): the first
\* safe_call_mock of id after mock_once_safe(id, behavior) with types that
\* are not the behavior's panics and leaves the slot of id empty: the store
\* has changed, and an invoke of id after it, also one with the behavior's
\* types, returns None.
ConsumedOnMismatch ==
    [][last'.op = "safe_call_mock" =>
         LET id == last'.id
             m  == mocked["checked"][id]
         IN  (~used["checked"][id] /\ m # NoMock
               /\ ~WellTyped(m, last'.input, last'.otype))
             => /\ last'.ret = Panic
                /\ Slot(faux, "checked", id) = m
                /\ Slot(faux', "checked", id) = NoMock
                /\ faux' # faux
                /\ \A input \in Inputs, O \in OutTypes :
                      safe_call_mock(faux', id, input, O).ret = None]_vars

\* a safe_call_mock has panicked on the types and the slot is empty
ConsumedOnMismatchWitness ==
    /\ last.op = "safe_call_mock"
    /\ last.ret = Panic
    /\ mocked["checked"][last.id] # NoMock
    /\ Slot(faux, "checked", last.id) = NoMock

----------------------------------------------------------------------------
(* The same operations on the unchecked and on the checked lane, each
   identifier used with one input and output type: every operation is made
   on the unchecked lane and then on the checked lane, whose tables are the
   stores of the two runs *)

\* the one I and the one O every mock_once::<I, O> and call_mock::<I, O> of
\* an identifier is made with
SigIn(id) == IF id = "get" THEN "unit" ELSE "i32"

SigOut(id) == IF id = "get" THEN "i32" ELSE "bool"

\* the closures of the types of id
SigMocks(id) ==
    {m \in PlainMocks : InType(m.fn) = SigIn(id) /\ OutType(m.fn) = SigOut(id)}

\* the next operation of the sequence, on the unchecked lane
PairUnchecked ==
    /\ last.lane # "unchecked"
    /\ \/ \E id \in Ids : \E mock \in SigMocks(id) : MockOnce(id, mock)
       \/ \E id \in Ids : \E input \in ValuesOf(SigIn(id)) :
             CallMock(id, input, SigOut(id))

\* the same operation on the checked lane
PairChecked ==
    /\ last.lane = "unchecked"
    /\ IF last.op = "mock_once"
       THEN MockOnceSafe(last.id, last.mock)
       ELSE SafeCallMock(last.id, last.input, last.otype)

NextPair ==
    \/ PairUnchecked /\ UNCHANGED <<cell, tally>>
    \/ PairChecked /\ UNCHANGED <<cell, tally>>

SpecPair == Init /\ [][NextPair]_vars

\* the identifiers a lane holds an entry for
Occupied(f, l) == {id \in Ids : Slot(f, l, id) # NoMock}

\* C14 (lane consistency on well-typed use): when the same sequence of
\* registers and invokes, each identifier used with one input and output
\* type, is made on the unchecked and on the checked lane, every operation
\* returns the same on both lanes and applies the same closure to the same
\* argument, and after it both lanes hold entries for the same identifiers.
LaneConsistency ==
    [][(last.lane = "unchecked" /\ last'.lane = "checked") =>
         /\ last'.ret = last.ret
         /\ last'.applied = last.applied
         /\ last'.ret.kind \in {"Unit", "Some", "None"}
         /\ Occupied(faux', "checked") = Occupied(faux', "unchecked")]_vars

\* both lanes have answered an invoke with the behavior's output, and both
\* have answered the invoke after it with None
LaneConsistencyWitness ==
    /\ last.op = "safe_call_mock"
    /\ last.ret = None
    /\ mocked["checked"][last.id] # NoMock
    /\ mocked["unchecked"][last.id] = mocked["checked"][last.id]
    /\ used["unchecked"][last.id]
    /\ Occupied(faux, "checked") = Occupied(faux, "unchecked")
    /\ Occupied(faux, "checked") # {}

----------------------------------------------------------------------------
(* The store used directly, its registers and its answers counted *)

\* one more register of id in lane l: the behavior now in the slot has not run
Registered(t, l, id) ==
    [t EXCEPT ![l][id] = [regs |-> @.regs + 1, hits |-> @.hits, runs |-> 0]]

\* one more invoke of id in lane l that ended as r did
Invoked(t, l, id, r) ==
    [t EXCEPT ![l][id] =
        [regs |-> @.regs,
         hits |-> @.hits + (IF r.ret.kind = "Some" THEN 1 ELSE 0),
         runs |-> @.runs + Len(r.applied)]]

CountMockOnce(id, mock) ==
    /\ tally["unchecked"][id].regs < MaxRegs
    /\ MockOnce(id, mock)
    /\ tally' = Registered(tally, "unchecked", id)
    /\ UNCHANGED cell

CountCallMock(id, input, O) ==
    /\ CallMock(id, input, O)
    /\ tally' = Invoked(tally, "unchecked", id, last')
    /\ UNCHANGED cell

CountMockOnceSafe(id, mock) ==
    /\ tally["checked"][id].regs < MaxRegs
    /\ MockOnceSafe(id, mock)
    /\ tally' = Registered(tally, "checked", id)
    /\ UNCHANGED cell

CountSafeCallMock(id, input, O) ==
    /\ SafeCallMock(id, input, O)
    /\ tally' = Invoked(tally, "checked", id, last')
    /\ UNCHANGED cell

NextCount ==
    \/ \E id \in CountIds, mock \in PlainMocks : CountMockOnce(id, mock)
    \/ \E id \in CountIds, input \in Inputs, O \in OutTypes :
          CountCallMock(id, input, O)
    \/ \E id \in CountIds, mock \in PlainMocks : CountMockOnceSafe(id, mock)
    \/ \E id \in CountIds, input \in Inputs, O \in OutTypes :
          CountSafeCallMock(id, input, O)

SpecCount == Init /\ [][NextCount]_vars

\* C17 (no behavior from nothing): over the plain store operations, for
\* every identifier and lane the invokes that returned Some are never more
\* than the registers made, the behavior registered last has run at most
\* once, and no single invoke runs more than one closure.
NoBehaviorFromNothing ==
    /\ \A l \in Lanes, id \in Ids :
          /\ tally[l][id].hits <= tally[l][id].regs
          /\ tally[l][id].runs <= 1
          /\ (Slot(faux, l, id) # NoMock) => tally[l][id].runs = 0
    /\ IsInvoke(last) => Len(last.applied) <= 1

\* as many invokes have returned Some as registers were made, more than one,
\* and the invoke after them returned None
NoBehaviorFromNothingWitness ==
    /\ IsInvoke(last)
    /\ last.ret = None
    /\ tally[last.lane][last.id].regs = MaxRegs
    /\ tally[last.lane][last.id].hits = MaxRegs

----------------------------------------------------------------------------
(* The mocked methods of two identifiers on one mock instance, the outputs
   returned since the registration counted *)

\* a registration of id in lane l: nothing returned since
Fresh(t, l, id) == [t EXCEPT ![l][id] = NoTally]

\* when!(foo.id).once().safe_then(mock)
BudgetOnce(id, fn) ==
    /\ OnceSafeThen(id, fn)
    /\ tally' = Fresh(tally, "checked", id)
    /\ UNCHANGED cell

\* when!(foo.id).times(n).safe_then(mock)
BudgetTimes(id, n, fn) ==
    /\ TimesSafeThen(id, n, fn)
    /\ tally' = Fresh(tally, "checked", id)
    /\ UNCHANGED cell

\* when!(foo.id).safe_then(mock)
BudgetAlways(id, fn) ==
    /\ AlwaysSafeThen(id, fn)
    /\ tally' = Fresh(tally, "checked", id)
    /\ UNCHANGED cell

\* foo.id() on the mock instance
BudgetGet(id) ==
    /\ calls["checked"][id] < MaxTimes + 2
    /\ FauxGet("checked", id)
    /\ tally' = Invoked(tally, "checked", id, last')
    /\ UNCHANGED cell

NextBudget ==
    \/ \E id \in Ids, fn \in WrapFns : BudgetOnce(id, fn)
    \/ \E id \in Ids, n \in 1..MaxTimes, fn \in WrapFns : BudgetTimes(id, n, fn)
    \/ \E id \in Ids, fn \in WrapFns : BudgetAlways(id, fn)
    \/ \E id \in Ids : BudgetGet(id)

SpecBudget == Init /\ [][NextBudget]_vars

\* the behavior registered for id has a budget, and as many calls as the
\* budget allows have returned its output
Exhausted(l, id) ==
    /\ cfg[l][id].kind \in {"then", "once", "times"}
    /\ tally[l][id].hits = cfg[l][id].n

\* this step registers a behavior for id in lane l
RegistersNow(l, id) ==
    /\ last'.op \in {"then", "once", "times", "always"}
    /\ last'.lane = l
    /\ last'.id = id

\* this step is a call of the mocked method of id through lane l
GetsNow(l, id) == calls'[l][id] = calls[l][id] + 1

\* C12 (exhaustion is terminal): once the budget of the behavior of id is
\* used up the slot of id is empty and a call of id can only fail; calls of
\* any identifier, as many as there may be, leave it so: every call of id
\* ends in the fatal "no behavior", applies nothing and returns no output
\* again, until a behavior is registered for id.
ExhaustionTerminal ==
    /\ [](\A l \in Lanes, id \in Ids :
            Exhausted(l, id) =>
               /\ Slot(faux, l, id) = NoMock
               /\ \A r \in Faux_get(faux, l, id) : r.ret = Fatal)
    /\ [][\A l \in Lanes, id \in Ids :
            (Exhausted(l, id) /\ ~RegistersNow(l, id)) =>
               /\ Exhausted(l, id)'
               /\ GetsNow(l, id) =>
                     (last'.ret = Fatal /\ last'.applied = <<>> /\ faux' = faux)]_vars

\* after the budget of get was used up, get_stuff was registered and has
\* returned its output, get has failed more than once, and fails again
ExhaustionTerminalWitness ==
    /\ Exhausted("checked", "get")
    /\ IsGet("checked", "get")
    /\ last.ret = Fatal
    /\ calls["checked"]["get"] >= cfg["checked"]["get"].n + 2
    /\ cfg["checked"]["get"].n >= 2
    /\ tally["checked"]["get_stuff"].hits >= 1

\* C13 (budget and slot agree): after times(n).safe_then(behavior), between
\* any two operations the slot of id holds the behavior if and only if
\* fewer than n calls have returned its output, the budget it holds is n
\* less the number of those calls, and the slot is empty once n calls have
\* returned.
BudgetSlotConsistent ==
    \A l \in Lanes, id \in Ids :
       cfg[l][id].kind = "times" =>
          LET n    == cfg[l][id].n
              hits == tally[l][id].hits
          IN  /\ hits <= n
              /\ (Slot(faux, l, id) # NoMock) <=> (hits < n)
              /\ hits < n => Slot(faux, l, id) = Mock(cfg[l][id].fn, n - hits)
              /\ hits >= n => Slot(faux, l, id) = NoMock
              /\ hits = IF calls[l][id] <= n THEN calls[l][id] ELSE n

\* of a budget of three two calls have returned: the slot holds a budget of one
BudgetSlotConsistentWitness ==
    /\ IsGet("checked", "get")
    /\ cfg["checked"]["get"] = Cfg("times", "k10", 3)
    /\ tally["checked"]["get"].hits = 2
    /\ Slot(faux, "checked", "get") = Mock("k10", 1)

----------------------------------------------------------------------------
(* A behavior that, while it runs, uses the mock instance it was called on:
   a call of the mocked method that finds a behavior is taken in two steps,
   the borrow of the cell and the removal of the entry before the behavior
   runs, the output and the release of the borrow after it *)

\* when!(foo.id).then(mock), no call running
ReentThen(id, fn) ==
    /\ ~cell.borrowed
    /\ Then(id, fn)
    /\ UNCHANGED <<cell, tally>>

\* when!(foo.id).times(n).safe_then(mock), no call running
ReentTimes(id, n, fn) ==
    /\ ~cell.borrowed
    /\ TimesSafeThen(id, n, fn)
    /\ UNCHANGED <<cell, tally>>

\* foo.id() with no behavior in the slot: no behavior runs
ReentMiss(lane, id) ==
    /\ borrow_mut(cell).ok
    /\ calls[lane][id] < MaxTimes + 2
    /\ Slot(faux, lane, id) = NoMock
    /\ FauxGet(lane, id)
    /\ UNCHANGED <<cell, tally>>

\* foo.id() finds a behavior: the cell is borrowed, the entry removed, and
\* the behavior starts to run
ReentBegin(lane, id) ==
    /\ borrow_mut(cell).ok
    /\ calls[lane][id] < MaxTimes + 2
    /\ Slot(faux, lane, id) # NoMock
    /\ \E r \in Invoke(faux, lane, id, MethodInput, MethodOutput) :
          /\ faux' = r.faux
          /\ cell' = [borrow_mut(cell).cell EXCEPT
                         !.lane = lane, !.id = id, !.found = Slot(faux, lane, id),
                         !.ret = r.ret, !.applied = r.applied]
    /\ last' = Op("begin_get", lane, id, NoMock, NoMock, MethodInput, MethodOutput,
                  Unit, <<>>)
    /\ UNCHANGED <<real, mocked, used, cfg, calls, tally>>

\* the behavior returns: what the budget leaves is registered again, the
\* borrow is released and the caller has the output
ReentFinish ==
    /\ cell.borrowed
    /\ LET next == Remaining(cell.found)
       IN  /\ faux' = IF cell.ret.kind = "Some" /\ next # NoMock
                      THEN Register(faux, cell.lane, cell.id, next)
                      ELSE faux
           /\ mocked' = IF cell.ret.kind = "Some" /\ next # NoMock
                        THEN [mocked EXCEPT ![cell.lane][cell.id] = next]
                        ELSE mocked
           /\ used' = [used EXCEPT ![cell.lane][cell.id] =
                          ~(cell.ret.kind = "Some" /\ next # NoMock)]
    /\ last' = [Op("get", cell.lane, cell.id, NoMock, NoMock, MethodInput,
                   MethodOutput, cell.ret, cell.applied) EXCEPT !.body = "mock"]
    /\ calls' = [calls EXCEPT ![cell.lane][cell.id] = @ + 1]
    /\ cell' = RefCell_new
    /\ UNCHANGED <<real, cfg, tally>>

\* the call that was running is lost to the panic of a nested borrow_mut:
\* its entry is gone, the borrow is released as the stack unwinds
Unwound(op, lane, id, mock) ==
    /\ faux' = faux
    /\ last' = Op(op, lane, id, mock, NoMock, NoVal, "none", AlreadyBorrowed, <<>>)
    /\ used' = [used EXCEPT ![cell.lane][cell.id] = TRUE]
    /\ calls' = [calls EXCEPT ![cell.lane][cell.id] = @ + 1]
    /\ cell' = RefCell_new
    /\ UNCHANGED <<real, mocked, cfg, tally>>

\* the behavior running calls foo.id() on the mock instance it runs for
ReentNestedGet(lane, id) ==
    /\ cell.borrowed
    /\ IF borrow_mut(cell).ok
       THEN /\ calls[lane][id] < MaxTimes + 2
            /\ FauxGet(lane, id)
            /\ UNCHANGED <<cell, tally>>
       ELSE Unwound("nested_get", lane, id, NoMock)

\* the behavior running registers a behavior on the mock instance it runs for
ReentNestedThen(id, fn) ==
    /\ cell.borrowed
    /\ IF borrow_mut(cell).ok
       THEN /\ Then(id, fn)
            /\ UNCHANGED <<cell, tally>>
       ELSE Unwound("nested_then", "unchecked", id, Mock(fn, 1))

NextReent ==
    \/ \E id \in WrapIds, fn \in WrapFns : ReentThen(id, fn)
    \/ \E id \in WrapIds, n \in 1..MaxTimes, fn \in WrapFns : ReentTimes(id, n, fn)
    \/ \E lane \in Lanes, id \in WrapIds : ReentMiss(lane, id)
    \/ \E lane \in Lanes, id \in WrapIds : ReentBegin(lane, id)
    \/ ReentFinish
    \/ \E lane \in Lanes, id \in WrapIds : ReentNestedGet(lane, id)
    \/ \E id \in WrapIds, fn \in WrapFns : ReentNestedThen(id, fn)

SpecReent == Init /\ [][NextReent]_vars

\* this step is the return of the behavior running
FinishesNow == cell.borrowed /\ ~cell'.borrowed /\ last'.op = "get"

\* C11 (reentrancy guard): while a behavior runs as part of a call on a
\* mock instance, a call or a registration it attempts on the same instance
\* ends in the panic of the borrow (a mutable-aliasing violation) and
\* neither reads nor changes the store: no behavior is applied and every
\* entry stays as it was; with no behavior running no operation ends so.
ReentrancyGuard ==
    [][/\ (cell.borrowed /\ ~FinishesNow) =>
             /\ last'.op \in {"nested_get", "nested_then"}
             /\ last'.ret = AlreadyBorrowed
             /\ last'.applied = <<>>
             /\ faux' = faux
       /\ ~cell.borrowed => last'.ret # AlreadyBorrowed]_vars

\* a nested call of an identifier whose slot holds a behavior has ended in
\* the panic, and the behavior is still there
ReentrancyGuardWitness ==
    /\ last.op = "nested_get"
    /\ last.ret = AlreadyBorrowed
    /\ Slot(faux, last.lane, last.id) # NoMock
    /\ ~cell.borrowed

====
